---- MODULE Spec2Model ----
(***************************************************************************)
(* Model of the renderer of Horalix Halo:                                   *)
(*   - TranslationStream / TranslationService (src/services/translation.ts)*)
(*   - SpeakerDetector and useSpeechRecognition (hooks/useSpeechRecognition)*)
(*   - MeetingPage: transcript, translation, lifecycle, backend calls      *)
(*   - SubscriptionProvider and the API client (SubscriptionContext, api)  *)
(*   - the IPC channels of the host shell (electron/horalix-main.ts)       *)
(* Each component has its own specification (SpecStream, SpecFlaky,        *)
(* SpecBlank, SpecDetector, SpecHook, SpecSegments, SpecOptions, SpecPage, *)
(* SpecMeeting, SpecBackend, SpecGate, SpecCheckout, SpecShell); the       *)
(* variables of the other components stay at their initial values.         *)
(***************************************************************************)
EXTENDS Integers, Sequences, FiniteSets, TLC

VARIABLES
    \* ---- TranslationStream (translation.ts:164-223)
    targetLang,      \* this.targetLang
    pendingTexts,    \* this.pendingTexts; each entry carries the id of the addText call that pushed it
    isProcessing,    \* this.isProcessing
    awaiting,        \* processQueue invocations suspended at the await of line 198
    fetches,         \* log of the requests handed to the translation backend, in order
    calls,           \* log of the addText calls: text, language in effect, what the promise resolved to
    cleared,         \* ids of the addText calls whose text clear() removed from the queue
    failed,          \* observer of the backend: the request settled last ended in a failure
    \* ---- SpeakerDetector (useSpeechRecognition.ts, part_000:195-226)
    lastSpeechTime,  \* this.lastSpeechTime
    currentSpeaker,  \* this.currentSpeaker
    speakerHistory,  \* this.speakerHistory
    detections,      \* log of the detectSpeaker calls since construction or the last reset()
    \* ---- useSpeechRecognition (part_000:228-381)
    isListening,     \* useState: isListening
    isSupported,     \* useState: isSupported
    continuous,      \* option continuous, the same in every render
    enableDiarization, \* option enableDiarization of the latest render
    current,         \* recognitionRef.current: the recognizer, with what its handlers closed over
                     \* (isListening, startListening's isSupported, enableDiarization)
    retired,         \* recognizers an effect cleanup stopped and replaced, not ended yet
    timers,          \* pending setTimeout callbacks of the onerror handler (line 303)
    now,             \* Date.now()
    segmentCounter,  \* segmentCounterRef.current
    segments,        \* the segments handed to onSegment, in order
    reported,        \* the arguments of the onError calls made by the most recent handler
    logged,          \* the number of console.error calls made by the most recent handler
    \* ---- MeetingPage (MeetingPage.tsx:29-229, 309-345, 477-546, 638-661)
    canStartAllowed,      \* useCanStartMeeting().allowed
    isActive,             \* useState: isActive
    startedAt,            \* useState: startedAt; 0 stands for null
    showBrowserWarning,   \* useState: showBrowserWarning
    showEndMeetingConfirm, \* useState: showEndMeetingConfirm
    meetingDuration,      \* useState: meetingDuration
    micDenied,            \* transcriptionError holds the microphone message of line 128
    starting,             \* startMeeting calls waiting for getUserMedia (line 122)
    ending,               \* confirmEndMeeting calls waiting for the backend (lines 184-204)
    meetingId,            \* useState: meetingId, set once at the first render (line 33)
    meetings,             \* number of meetings that became active on this page instance
    endRequestedAt,       \* Date.now() when the end was last requested (lines 168, 225)
    endCalls,             \* number of onEndMeeting calls (line 211)
    fullTranscriptText,   \* useState: fullTranscriptText, as the list of the pieces appended
    transcript,           \* useState: transcript
    translatedTranscript, \* useState: translatedTranscript
    translationEnabled,   \* useState: translationEnabled
    targetLanguage,       \* useState: targetLanguage
    translating,          \* translate calls of onSegment that have not resolved yet
    staleHandlers,        \* what the onSegment of replaced, not yet ended recognizers closed over
    delivered,            \* number of segments handed to the page so far
    \* ---- host shell (electron/horalix-main.ts:20-85, TitleBar.tsx, preload bridge)
    electronAPI,     \* window.electronAPI?.invoke is defined in the renderer
    handlers,        \* the channels that have an ipcMain.handle registration
    invoked,         \* log of the renderer's invoke calls: channel and outcome
    \* ---- SubscriptionProvider and the backend API (SubscriptionContext.tsx, api.ts)
    token,                  \* useAuth().token; NoToken stands for null
    realtimeTranscription,  \* state.planConfig.features.realtimeTranscription
    minutesLimit,           \* state.minutesLimit
    minutesUsedThisPeriod,  \* state.minutesUsedThisPeriod
    fetching,               \* fetchSubscription calls waiting for the backend (line 110)
    checkouts,              \* the startCheckout calls: where each stands and how it ended
    refreshTimers,          \* pending setTimeout callbacks of startCheckout (line 241)
    requests                \* log of the HTTP requests sent to the backend API

streamVars == <<targetLang, pendingTexts, isProcessing, awaiting, fetches, calls, cleared>>

detectorVars == <<lastSpeechTime, currentSpeaker, speakerHistory, detections>>

hookVars == <<isListening, isSupported, continuous, enableDiarization, current, retired,
              timers, now, segmentCounter, segments, reported, logged>>

\* The meeting controls of the page.
meetingVars == <<canStartAllowed, isActive, startedAt, showBrowserWarning,
                 showEndMeetingConfirm, meetingDuration, micDenied, starting, ending,
                 meetingId, meetings, endRequestedAt, endCalls>>

planVars == <<realtimeTranscription, minutesLimit, minutesUsedThisPeriod>>

subscriptionVars == <<token, planVars, fetching, checkouts, refreshTimers, requests>>

shellVars == <<electronAPI, handlers, invoked>>

pageVars == <<meetingVars, fullTranscriptText, transcript, translatedTranscript,
              translationEnabled, targetLanguage, translating, staleHandlers, delivered>>

vars == <<streamVars, failed, detectorVars, hookVars, pageVars, shellVars, subscriptionVars>>

\* What the steps of one component leave alone.
notStream == <<detectorVars, hookVars, pageVars, shellVars, subscriptionVars>>
notDetector == <<streamVars, failed, hookVars, pageVars, shellVars, subscriptionVars>>
notHook == <<streamVars, failed, pageVars, shellVars, subscriptionVars>>
notPage == <<streamVars, failed, detectorVars, hookVars, shellVars, subscriptionVars>>
notShell == <<streamVars, failed, detectorVars, hookVars, pageVars, subscriptionVars>>

\* ------------------------------------------------------------------ bounds

MaxCalls == 3         \* addText calls per behaviour
MaxUtterances == 4    \* detectSpeaker calls per detector session
MaxTicks == 2         \* clock steps of the hook, each of the retry delay
MaxRetired == 1       \* replaced recognizers that have not ended yet
MaxTimers == 1        \* retry timers pending at once
MaxSegments == 1      \* segments emitted by the hook
MaxDelivered == 3     \* segments handed to the MeetingPage
MaxEmitted == 2       \* segments emitted by the hook when it feeds the MeetingPage
MaxReplay == 3        \* length of the timestamp sequences replayed on a detector
MaxPending == 1       \* startMeeting calls waiting at once
MaxEnding == 2        \* confirmEndMeeting calls waiting at once
MaxInvokes == 3       \* invoke calls of the renderer per behaviour
MaxMeetings == 2      \* meetings started on one MeetingPage instance
MaxMinutes == 1       \* minutes that pass on the meeting clock
MaxFetches == 1       \* fetchSubscription calls waiting at once
MaxRequests == 3      \* requests in the log when the provider reloads on its own
MaxCheckouts == 2     \* startCheckout calls per behaviour

\* ------------------------------------------------------------------ texts

\* A text is a sequence of characters; " " is the only whitespace character used.
Texts == { <<" ">>, <<"a">>, <<"b", " ">> }

Langs == {"es", "fr"}

RECURSIVE TrimStart(_)
\* String.prototype.trim, leading part
TrimStart(s) == IF s # <<>> /\ Head(s) = " " THEN TrimStart(Tail(s)) ELSE s

RECURSIVE TrimEnd(_)
\* String.prototype.trim, trailing part
TrimEnd(s) == IF s # <<>> /\ s[Len(s)] = " " THEN TrimEnd(SubSeq(s, 1, Len(s) - 1)) ELSE s

\* text.trim()
Trim(s) == TrimEnd(TrimStart(s))

\* ------------------------------------------------------------------ TranslationService

\* What the backend can answer to one request: a 2xx answer with a translation,
\* a 2xx answer whose translatedText is empty, or a failure (network error, non-2xx).
Responses == {"ok", "okEmpty", "fail"}

\* The failures: fetch rejects (line 70), the status is not 2xx (line 55) or
\* response.json() rejects on an unparsable body (lines 56, 70); all of them
\* leave translate at the fallback of line 68.
Failures == {"fail"}

\* The target-language rendering the backend produces for a text.
Rendering(text, target) == [of |-> text, into |-> target]

\* A text handed back unchanged (the fallbacks of lines 58 and 71).
Original(text) == [of |-> text, into |-> "unchanged"]

\* TranslationService.translate, after fetch settled with resp (lines 55-74):
\* data.translatedText || text on a 2xx answer, the original text otherwise.
translate(text, target, resp) ==
    IF resp \in Failures
    THEN [kind |-> "result", translatedText |-> Original(text), targetLanguage |-> target]
    ELSE IF resp = "ok"
    THEN [kind |-> "result", translatedText |-> Rendering(text, target), targetLanguage |-> target]
    ELSE [kind |-> "result", translatedText |-> Original(text), targetLanguage |-> target]

\* ------------------------------------------------------------------ TranslationStream

\* What the promise returned by addText holds: null, nothing yet, or a TranslationResult.
Null == [kind |-> "null"]
Waiting == [kind |-> "waiting"]

\* A processQueue that does not look at the isProcessing flag.
ProcessQueueSkips_NoFlag(queue, busy) == queue = <<>>

\* processQueue's early return (line 191)
ProcessQueueSkips(queue, busy) == busy \/ queue = <<>>

\* A processQueue that translates into the language in effect when the text was enqueued.
processQueue_LangAtEnqueue(queue, busy, susp, caller) ==
    IF ProcessQueueSkips(queue, busy)
    THEN /\ pendingTexts' = queue
         /\ isProcessing' = busy
         /\ fetches' = fetches
         /\ awaiting' = susp
    ELSE /\ isProcessing' = TRUE
         /\ pendingTexts' = Tail(queue)
         /\ fetches' = Append(fetches, [text |-> Head(queue).text,
                                        target |-> IF Head(queue).call <= Len(calls)
                                                   THEN calls[Head(queue).call].lang
                                                   ELSE targetLang,
                                        call |-> Head(queue).call])
         /\ awaiting' = susp \cup {[fetch |-> Len(fetches) + 1, caller |-> caller]}

\* processQueue (lines 190-198) up to the await, run on the queue `queue` with the
\* flag `busy` on behalf of `caller` (an addText call id, or 0 for the internal
\* drain of line 204 whose promise nobody keeps); `susp` are the invocations
\* that remain suspended at their await.
processQueue(queue, busy, susp, caller) ==
    IF ProcessQueueSkips(queue, busy)
    THEN /\ pendingTexts' = queue
         /\ isProcessing' = busy
         /\ fetches' = fetches
         /\ awaiting' = susp
    ELSE /\ isProcessing' = TRUE
         /\ pendingTexts' = Tail(queue)
         /\ fetches' = Append(fetches, [text |-> Head(queue).text, target |-> targetLang,
                                        call |-> Head(queue).call])
         /\ awaiting' = susp \cup {[fetch |-> Len(fetches) + 1, caller |-> caller]}

\* An addText that enqueues whatever it is given, blank or not.
addText_Enqueues(text) ==
    /\ Len(calls) < MaxCalls
    /\ LET id == Len(calls) + 1
           queue == Append(pendingTexts, [text |-> text, call |-> id]) IN
       /\ processQueue(queue, isProcessing, awaiting, id)
       /\ calls' = Append(calls, [text |-> text, lang |-> targetLang,
                                  ret |-> IF ProcessQueueSkips(queue, isProcessing)
                                          THEN Null ELSE Waiting])
    /\ UNCHANGED <<targetLang, cleared>>

\* addText (lines 180-185)
addText(text) ==
    /\ Len(calls) < MaxCalls
    /\ LET id == Len(calls) + 1 IN
       IF Trim(text) = <<>>
       THEN /\ calls' = Append(calls, [text |-> text, lang |-> targetLang, ret |-> Null])
            /\ UNCHANGED <<pendingTexts, isProcessing, awaiting, fetches>>
       ELSE LET queue == Append(pendingTexts, [text |-> text, call |-> id]) IN
            /\ processQueue(queue, isProcessing, awaiting, id)
            /\ calls' = Append(calls, [text |-> text, lang |-> targetLang,
                                       ret |-> IF ProcessQueueSkips(queue, isProcessing)
                                               THEN Null ELSE Waiting])
    /\ UNCHANGED <<targetLang, cleared>>

\* A processQueue continuation that lowers the flag and returns without the
\* drain of lines 203-205.
Resume_NoDrain(w, resp) ==
    /\ w \in awaiting
    /\ isProcessing' = FALSE
    /\ awaiting' = awaiting \ {w}
    /\ calls' = IF w.caller = 0 THEN calls
                ELSE [calls EXCEPT ![w.caller].ret =
                         translate(fetches[w.fetch].text, fetches[w.fetch].target, resp)]
    /\ UNCHANGED <<pendingTexts, fetches, targetLang, cleared>>

\* A continuation whose await throws when the request failed: the flag stays up,
\* nothing is drained and the caller's promise rejects.
Resume_Rejects(w, resp) ==
    /\ w \in awaiting
    /\ awaiting' = awaiting \ {w}
    /\ isProcessing' = (resp \in Failures)
    /\ calls' = IF w.caller = 0 THEN calls
                ELSE [calls EXCEPT ![w.caller].ret =
                         IF resp \in Failures THEN [kind |-> "rejected"]
                         ELSE translate(fetches[w.fetch].text, fetches[w.fetch].target, resp)]
    /\ UNCHANGED <<pendingTexts, fetches, targetLang, cleared>>

\* The backend settles the request of one suspended processQueue with resp, and
\* that processQueue resumes (lines 198-207): flag down, drain, return the result.
Resume(w, resp) ==
    /\ w \in awaiting
    /\ LET f == fetches[w.fetch]
           result == translate(f.text, f.target, resp)
       IN /\ processQueue(pendingTexts, FALSE, awaiting \ {w}, 0)
          /\ calls' = IF w.caller = 0 THEN calls
                      ELSE [calls EXCEPT ![w.caller].ret = result]
    /\ UNCHANGED <<targetLang, cleared>>

\* setTargetLanguage (lines 213-215)
setTargetLanguage(lang) ==
    /\ lang # targetLang
    /\ targetLang' = lang
    /\ UNCHANGED <<pendingTexts, isProcessing, awaiting, fetches, calls, cleared>>

\* A clear that also abandons the request in flight.
clear_Cancels ==
    /\ pendingTexts # <<>>
    /\ pendingTexts' = <<>>
    /\ cleared' = cleared \cup {pendingTexts[i].call : i \in 1..Len(pendingTexts)}
    /\ awaiting' = {}
    /\ isProcessing' = FALSE
    /\ UNCHANGED <<targetLang, fetches, calls>>

\* clear (lines 220-222)
clear ==
    /\ pendingTexts # <<>>
    /\ pendingTexts' = <<>>
    /\ cleared' = cleared \cup {pendingTexts[i].call : i \in 1..Len(pendingTexts)}
    /\ UNCHANGED <<targetLang, isProcessing, awaiting, fetches, calls>>

\* new TranslationStream(targetLang) (lines 168-175)
StreamConstructed ==
    /\ targetLang \in Langs
    /\ pendingTexts = <<>>
    /\ isProcessing = FALSE
    /\ awaiting = {}
    /\ fetches = <<>>
    /\ calls = <<>>
    /\ cleared = {}
    /\ failed = FALSE

\* ------------------------------------------------------------------ SpeakerDetector

SPEAKER_SWITCH_THRESHOLD == 2000

HistoryLimit == 20

\* `Speaker ${this.currentSpeaker}` (line 218)
SpeakerLabel(n) == "Speaker " \o ToString(n)

\* A switch test that also fires on a gap of exactly the threshold.
SpeakerSwitches_AtThreshold(timestamp, previous) ==
    timestamp - previous >= SPEAKER_SWITCH_THRESHOLD /\ previous > 0

\* The switch test of detectSpeaker (lines 202-205)
SpeakerSwitches(timestamp, previous) ==
    timestamp - previous > SPEAKER_SWITCH_THRESHOLD /\ previous > 0

\* The fields of a SpeakerDetector object (lines 196-198), as a value.
Detector == [lastSpeechTime |-> lastSpeechTime, currentSpeaker |-> currentSpeaker,
             speakerHistory |-> speakerHistory]

\* The fields of a freshly constructed SpeakerDetector.
FreshDetector == [lastSpeechTime |-> 0, currentSpeaker |-> 1, speakerHistory |-> <<>>]

\* The fields after detectSpeaker(timestamp) on a detector with fields d (lines 201-216).
AfterDetect(d, timestamp) ==
    LET speaker == IF SpeakerSwitches(timestamp, d.lastSpeechTime)
                   THEN (IF d.currentSpeaker = 1 THEN 2 ELSE 1)
                   ELSE d.currentSpeaker
        pushed == Append(d.speakerHistory, [speaker |-> speaker, time |-> timestamp])
    IN [lastSpeechTime |-> timestamp,
        currentSpeaker |-> speaker,
        speakerHistory |-> IF Len(pushed) > HistoryLimit THEN Tail(pushed) ELSE pushed]

\* detectSpeaker(timestamp) (lines 201-219); the returned label goes to the log.
detectSpeaker(timestamp) ==
    LET d == AfterDetect(Detector, timestamp)
    IN /\ currentSpeaker' = d.currentSpeaker
       /\ lastSpeechTime' = d.lastSpeechTime
       /\ speakerHistory' = d.speakerHistory
       /\ detections' = Append(detections, [time |-> timestamp, before |-> currentSpeaker,
                                            after |-> d.currentSpeaker,
                                            label |-> SpeakerLabel(d.currentSpeaker)])

\* A reset that leaves currentSpeaker as it is.
AfterReset_KeepsSpeaker(d) == [d EXCEPT !.lastSpeechTime = 0, !.speakerHistory = <<>>]

\* The fields after reset() on a detector with fields d (lines 221-225).
AfterReset(d) ==
    [d EXCEPT !.lastSpeechTime = 0, !.currentSpeaker = 1, !.speakerHistory = <<>>]

\* reset() (lines 221-225)
reset ==
    LET d == AfterReset(Detector)
    IN /\ lastSpeechTime' = d.lastSpeechTime
       /\ currentSpeaker' = d.currentSpeaker
       /\ speakerHistory' = d.speakerHistory
       /\ detections' = <<>>

RECURSIVE Replay(_, _)
\* detectSpeaker called with the timestamps of `times` in turn on a detector
\* with fields d: the labels returned and the fields at the end.
Replay(d, times) ==
    IF times = <<>>
    THEN [labels |-> <<>>, detector |-> d]
    ELSE LET next == AfterDetect(d, Head(times))
             rest == Replay(next, Tail(times))
         IN [labels |-> <<SpeakerLabel(next.currentSpeaker)>> \o rest.labels,
             detector |-> rest.detector]

\* new SpeakerDetector() (lines 196-198)
DetectorConstructed ==
    /\ lastSpeechTime = 0
    /\ currentSpeaker = 1
    /\ speakerHistory = <<>>
    /\ detections = <<>>

\* Timestamps fed to a detector on its own: non-negative integers, 0 included.
Times == {0, 500, 2500, 2501, 3000, 5500}

\* ------------------------------------------------------------------ useSpeechRecognition

RetryDelay == 1000

ErrorCodes == {"no-speech", "aborted", "network", "audio-capture", "not-allowed"}

\* The transcripts the recognizer reports: blank, and text with trailing whitespace.
Transcripts == { <<" ">>, <<"a", " ">> }

NotSupportedMessage == "Speech recognition not supported in this browser. Please use Chrome or Edge."
NotInitializedMessage == "Speech recognition not initialized"

\* No SpeechRecognition constructor on the platform: recognitionRef.current stays null.
NoRecognizer == [state |-> "none", listening |-> FALSE, supported |-> FALSE, diarize |-> FALSE]

\* new SpeechRecognition() with the handlers of lines 257-321, which close over
\* isListening, startListening (which in turn closes over isSupported) and
\* enableDiarization of the render the effect belongs to.
NewRecognizer(listening, supported, diarize) ==
    [state |-> "idle", listening |-> listening, supported |-> supported, diarize |-> diarize]

\* SpeechRecognition.start(): throws InvalidStateError ("recognition has already
\* started") unless the recognizer is idle.
StartThrows(rec) == rec.state # "idle"
Started(rec) == [rec EXCEPT !.state = "active"]

\* SpeechRecognition.stop(): a recognizer that is capturing winds down and will
\* fire `end`; otherwise nothing happens.
Stopped(rec) == IF rec.state = "active" THEN [rec EXCEPT !.state = "stopping"] ELSE rec

\* A startListening that reports the missing support and raises isListening anyway.
startListening_SetsFlag(supported) ==
    IF ~supported
    THEN /\ reported' = <<NotSupportedMessage>>
         /\ logged' = 0
         /\ isListening' = TRUE
         /\ UNCHANGED <<current, detectorVars>>
    ELSE IF current.state = "none"
    THEN /\ reported' = <<NotInitializedMessage>>
         /\ logged' = 0
         /\ UNCHANGED <<isListening, current, detectorVars>>
    ELSE /\ reset
         /\ current' = IF StartThrows(current) THEN current ELSE Started(current)
         /\ isListening' = TRUE
         /\ reported' = <<>>
         /\ logged' = IF StartThrows(current) THEN 1 ELSE 0

\* startListening as created by a render whose isSupported was `supported`
\* (lines 335-361).
startListening(supported) ==
    IF ~supported
    THEN /\ reported' = <<NotSupportedMessage>>
         /\ logged' = 0
         /\ UNCHANGED <<isListening, current, detectorVars>>
    ELSE IF current.state = "none"
    THEN /\ reported' = <<NotInitializedMessage>>
         /\ logged' = 0
         /\ UNCHANGED <<isListening, current, detectorVars>>
    ELSE /\ reset
         /\ current' = IF StartThrows(current) THEN current ELSE Started(current)
         /\ isListening' = TRUE
         /\ reported' = <<>>
         /\ logged' = IF StartThrows(current) THEN 1 ELSE 0

\* The consumer calls the startListening of the latest render.
StartListening ==
    /\ startListening(isSupported)
    /\ UNCHANGED <<isSupported, continuous, enableDiarization, retired, timers, now,
                   segmentCounter, segments>>

\* stopListening (lines 363-373)
stopListening ==
    /\ current.state # "none"
    /\ current' = Stopped(current)
    /\ isListening' = FALSE
    /\ reported' = <<>>
    /\ logged' = 0
    /\ UNCHANGED <<isSupported, continuous, enableDiarization, retired, timers, now,
                   segmentCounter, segments, detectorVars>>

\* The recognizers that can still fire events: 0 is recognitionRef.current,
\* i > 0 the i-th retired one.
Sources == {0} \cup (1..Len(retired))
Recognizer(src) == IF src = 0 THEN current ELSE retired[src]
Live(rec) == rec.state \in {"active", "stopping"}

RemoveAt(seq, i) == SubSeq(seq, 1, i - 1) \o SubSeq(seq, i + 1, Len(seq))

\* An id built from the timestamp alone.
SegmentId_TimestampOnly(timestamp, counter) == "segment_" \o ToString(timestamp)

\* `segment_${timestamp}_${segmentCounterRef.current++}` (line 274)
SegmentId(timestamp, counter) ==
    "segment_" \o ToString(timestamp) \o "_" \o ToString(counter)

\* One entry of event.results: result.isFinal and result[0].transcript.
Results == [isFinal : BOOLEAN, transcript : Transcripts]

\* The results a `result` event brings, from event.resultIndex to the end of
\* event.results: one result, or a result that became final followed by the
\* next one (final results come before interim ones in the list).
SingleResultEvents == {<<r>> : r \in Results}

Events ==
    SingleResultEvents \cup
    {<<f, r>> : f \in {x \in Results : x.isFinal /\ Trim(x.transcript) # <<>>}, r \in Results}

\* The result the handler looks at: the last of the list (lines 258-259).
LastResult(event) == event[Len(event)]

\* The handler's test for building a segment (line 265).
Emits(event) == LastResult(event).isFinal /\ Trim(LastResult(event).transcript) # <<>>

\* onresult (lines 257-283) of recognizer src for one `result` event. The
\* handler uses the enableDiarization it closed over.
onresult(src, event) ==
    /\ Live(Recognizer(src))
    /\ IF Emits(event)
       THEN /\ IF Recognizer(src).diarize
               THEN detectSpeaker(now)
               ELSE UNCHANGED detectorVars
            /\ segments' = Append(segments,
                   [id |-> SegmentId(now, segmentCounter),
                    speaker |-> IF Recognizer(src).diarize
                                THEN SpeakerLabel(currentSpeaker') ELSE "You",
                    text |-> Trim(LastResult(event).transcript),
                    timestamp |-> now])
            /\ segmentCounter' = segmentCounter + 1
       ELSE UNCHANGED <<detectorVars, segments, segmentCounter>>
    /\ reported' = <<>>
    /\ logged' = 0
    /\ UNCHANGED <<isListening, isSupported, continuous, enableDiarization, current,
                   retired, timers, now>>

\* The codes the onerror handler returns on before reporting (lines 289-297).
IgnoredCodes == {"no-speech", "aborted"}

\* The codes the onerror handler schedules a retry for (line 302).
RetriedCodes == {"network", "audio-capture"}

\* An onerror handler without the early return for `aborted` (lines 294-297).
onerror_ReportsAborted(src, code) ==
    /\ Recognizer(src).state = "active"
    /\ logged' = 1
    /\ LET rec == Recognizer(src)
           retry == code \in RetriedCodes
       IN /\ IF code = "no-speech"
             THEN /\ reported' = <<>>
                  /\ UNCHANGED timers
             ELSE /\ (retry => Len(timers) < MaxTimers)
                  /\ reported' = <<code>>
                  /\ timers' = IF retry
                               THEN Append(timers, [due |-> now + RetryDelay,
                                                    listening |-> rec.listening,
                                                    supported |-> rec.supported])
                               ELSE timers
          /\ IF src = 0
             THEN current' = [current EXCEPT !.state = "stopping"]
             ELSE UNCHANGED current
    /\ UNCHANGED <<isListening, isSupported, continuous, enableDiarization, retired, now,
                   segmentCounter, segments, detectorVars>>

\* onerror (lines 286-309) of recognizer src with event.error = code. The error
\* reaches a recognizer that is capturing; it stops capturing and will fire `end`.
onerror(src, code) ==
    /\ Recognizer(src).state = "active"
    /\ logged' = 1
    /\ LET rec == Recognizer(src)
           retry == code \in RetriedCodes
       IN /\ IF code \in IgnoredCodes
             THEN /\ reported' = <<>>
                  /\ UNCHANGED timers
             ELSE /\ (retry => Len(timers) < MaxTimers)
                  /\ reported' = <<code>>
                  /\ timers' = IF retry
                               THEN Append(timers, [due |-> now + RetryDelay,
                                                    listening |-> rec.listening,
                                                    supported |-> rec.supported])
                               ELSE timers
          /\ IF src = 0
             THEN current' = [current EXCEPT !.state = "stopping"]
             ELSE UNCHANGED current
    /\ UNCHANGED <<isListening, isSupported, continuous, enableDiarization, retired, now,
                   segmentCounter, segments, detectorVars>>

\* The test of the setTimeout callback (line 304): the isListening its closure holds.
RetryCallsStart(timer) == timer.listening

\* The setTimeout callback of lines 303-307, run when its delay has passed.
timerFires(i) ==
    /\ i \in 1..Len(timers)
    /\ now >= timers[i].due
    /\ timers' = RemoveAt(timers, i)
    /\ IF RetryCallsStart(timers[i])
       THEN startListening(timers[i].supported)
       ELSE /\ reported' = <<>>
            /\ logged' = 0
            /\ UNCHANGED <<isListening, current, detectorVars>>
    /\ UNCHANGED <<isSupported, continuous, enableDiarization, retired, now,
                   segmentCounter, segments>>

\* The test of the onend handler (line 313): the isListening its closure holds,
\* and continuous.
RestartsOnEnd(rec) == rec.listening /\ continuous

\* onend (lines 312-321) of recognizer src, which has stopped capturing; the
\* restart calls start() on recognitionRef.current and swallows what it throws.
onend(src) ==
    /\ Live(Recognizer(src))
    /\ LET ended == IF src = 0 THEN [current EXCEPT !.state = "idle"] ELSE current
       IN /\ retired' = IF src = 0 THEN retired ELSE RemoveAt(retired, src)
          /\ current' = IF RestartsOnEnd(Recognizer(src)) /\ ~StartThrows(ended)
                        THEN Started(ended) ELSE ended
          /\ logged' = IF RestartsOnEnd(Recognizer(src)) /\ StartThrows(ended)
                       THEN 1 ELSE 0
          /\ reported' = <<>>
    /\ UNCHANGED <<isListening, isSupported, continuous, enableDiarization, timers, now,
                   segmentCounter, segments, detectorVars>>

\* A render with changed effect dependencies (interimResults, lang, onSegment or
\* onError; line 333): the cleanup of lines 324-332 stops the old recognizer, the
\* effect installs a new one closing over this render's values.
effect ==
    /\ current.state # "none"
    /\ Live(Stopped(current)) => Len(retired) < MaxRetired
    /\ retired' = IF Live(Stopped(current)) THEN Append(retired, Stopped(current)) ELSE retired
    /\ current' = NewRecognizer(isListening, isSupported, enableDiarization)
    /\ reported' = <<>>
    /\ logged' = 0
    /\ UNCHANGED <<isListening, isSupported, continuous, enableDiarization, timers, now,
                   segmentCounter, segments, detectorVars>>

\* A render in which the consumer passes a different enableDiarization and the
\* same onSegment and onError: enableDiarization is not a dependency of the
\* effect (line 333), so the recognizer and its handlers stay.
rerender ==
    /\ enableDiarization' = ~enableDiarization
    /\ reported' = <<>>
    /\ logged' = 0
    /\ UNCHANGED <<isListening, isSupported, continuous, current, retired, timers, now,
                   segmentCounter, segments, detectorVars>>

\* Time passes; a timer that is due fires before time passes further.
tick ==
    /\ now < MaxTicks * RetryDelay
    /\ \A i \in 1..Len(timers) : timers[i].due > now
    /\ now' = now + RetryDelay
    /\ UNCHANGED <<isListening, isSupported, continuous, enableDiarization, current,
                   retired, timers, segmentCounter, segments, reported, logged, detectorVars>>

\* The hook after mount (lines 238-333): the first render saw isListening = false
\* and isSupported = false, its effect probed the platform and created the
\* recognizer, and isSupported now holds the probe's answer.
HookMounted ==
    /\ isListening = FALSE
    /\ isSupported \in BOOLEAN
    /\ continuous \in BOOLEAN
    /\ enableDiarization \in BOOLEAN
    /\ current = IF isSupported THEN NewRecognizer(FALSE, FALSE, enableDiarization)
                 ELSE NoRecognizer
    /\ retired = <<>>
    /\ timers = <<>>
    /\ now = RetryDelay
    /\ segmentCounter = 0
    /\ segments = <<>>
    /\ reported = <<>>
    /\ logged = 0

\* The other components' view of a hook that is not part of the specification.
HookUnused ==
    /\ HookMounted
    /\ isSupported = FALSE /\ continuous = FALSE /\ enableDiarization = FALSE

\* ------------------------------------------------------------------ host shell

\* The channels the renderer invokes: TitleBar.tsx:13,19,25, MeetingPage.tsx:278,
\* SubscriptionContext.tsx:232.
RendererChannels ==
    {"window:minimize", "window:maximize", "window:close", "llm:generate", "shell:openExternal"}

\* The ipcMain.handle calls of the main process (horalix-main.ts:20 and 81).
RegisteredChannels == {"llm:generate", "shell:openExternal"}

\* ipcRenderer.invoke as the main process answers it: the handler's result, or
\* the rejection "No handler registered for <channel>".
Outcome(channel) == IF channel \in handlers THEN "handled" ELSE "no handler"

\* window.electronAPI.invoke(channel, ...) behind the guard
\* `if (window.electronAPI?.invoke)` (TitleBar.tsx:12, 18, 24)
invoke(channel) ==
    /\ electronAPI
    /\ invoked' = Append(invoked, [channel |-> channel, outcome |-> Outcome(channel)])
    /\ UNCHANGED <<electronAPI, handlers>>

\* TitleBar's handlers (TitleBar.tsx:11-27)
handleMinimize == invoke("window:minimize")
handleMaximize == invoke("window:maximize")
handleClose == invoke("window:close")

\* The main process has run its module body and created the window
\* (horalix-main.ts:20-85, 140-141); the renderer has loaded.
ShellStarted ==
    /\ electronAPI = TRUE
    /\ handlers = RegisteredChannels
    /\ invoked = <<>>

\* The other components' view of the shell.
ShellUnused == ShellStarted

\* ------------------------------------------------------------------ backend API client

\* useAuth().token is a string, or null when nobody is logged in.
NoToken == "null"
Tokens == {NoToken, "jwt"}

\* The Authorization header of a request: absent, or `Bearer ${token}`.
NoHeader == "none"
Bearer(t) == "Bearer " \o t

\* A request as the backend sees it. meeting, meetingStartedAt and requestedAt are
\* not sent: they record which meeting of the page the request is about, its
\* startedAt, and when the end was requested. A field that does not apply is 0 or "".
Request(endpoint, authorization, id, duration, meeting, started, requested) ==
    [endpoint |-> endpoint, authorization |-> authorization, meetingId |-> id,
     durationMinutes |-> duration, meeting |-> meeting, meetingStartedAt |-> started,
     requestedAt |-> requested]

\* apiRequest (api.ts:111-140): the Authorization header is added only
\* `if (token && !skipAuth)`; no caller passes skipAuth.
apiRequest(endpoint, t) ==
    Request(endpoint, IF t # NoToken THEN Bearer(t) ELSE NoHeader, "", 0, 0, 0, 0)

\* ------------------------------------------------------------------ SubscriptionProvider

\* What the subscription state can hold after a load (lines 117-128): the plan's
\* realtimeTranscription, a limit and the minutes used, below, at and above the limit.
Subscriptions ==
    [realtimeTranscription : BOOLEAN, minutesLimit : {20}, minutesUsedThisPeriod : {0, 20, 25}]

\* What /api/subscription/me can answer: the data of a subscription, 401, or
\* another error; data matters for "ok" only.
NoData == [realtimeTranscription |-> FALSE, minutesLimit |-> 20, minutesUsedThisPeriod |-> 0]
SubscriptionAnswers ==
    [status : {"ok"}, data : Subscriptions]
        \cup [status : {"unauthorized", "error"}, data : {NoData}]

Max(a, b) == IF a >= b THEN a ELSE b

\* getRemainingMinutes (lines 210-212)
getRemainingMinutes(limit, used) == Max(0, limit - used)

\* A canStartMeeting that looks at the plan only.
canStartMeeting_IgnoresMinutes(transcription, limit, used) == transcription

\* canStartMeeting (lines 189-208): the `allowed` of its result
canStartMeeting(transcription, limit, used) ==
    IF ~transcription THEN FALSE
    ELSE IF getRemainingMinutes(limit, used) <= 0 THEN FALSE
    ELSE TRUE

\* useCanStartMeeting().allowed of the render that follows a change of the
\* subscription state (lines 308-311, MeetingPage.tsx:31)
Rerendered ==
    canStartAllowed' =
        canStartMeeting(realtimeTranscription', minutesLimit', minutesUsedThisPeriod')

\* The state after api.get settled with answer (lines 115-149), and the render
\* that follows: the data replaces the state, a 401 puts DEFAULT_FREE_STATE
\* (lines 75-84, whose planConfig is PLANS.free of shared/plans: either value of
\* realtimeTranscription), any other error keeps the plan.
Loaded(answer) ==
    /\ IF answer.status = "ok"
       THEN /\ realtimeTranscription' = answer.data.realtimeTranscription
            /\ minutesLimit' = answer.data.minutesLimit
            /\ minutesUsedThisPeriod' = answer.data.minutesUsedThisPeriod
       ELSE IF answer.status = "unauthorized"
       THEN /\ realtimeTranscription' \in BOOLEAN
            /\ minutesLimit' = 20
            /\ minutesUsedThisPeriod' = 0
       ELSE UNCHANGED planVars
    /\ Rerendered

\* fetchSubscription up to its await (lines 104-113)
fetchSubscription ==
    /\ fetching' = fetching + 1
    /\ requests' = Append(requests, apiRequest("/api/subscription/me", token))

\* fetchSubscription after api.get settled (lines 115-149)
fetchSubscriptionResumes(answer) ==
    /\ fetching > 0
    /\ fetching' = fetching - 1
    /\ Loaded(answer)
    /\ UNCHANGED <<token, checkouts, refreshTimers, requests>>

\* The methods of the Logger of src/lib/logger.ts (lines 43-78)
LoggerMethods == {"debug", "info", "warn", "error"}

\* logger.<method>(...) returns; a call of a method the class does not have
\* throws a TypeError.
Logs(method) == method \in LoggerMethods

\* The delay of the refresh startCheckout schedules (line 243)
RefreshDelay == 3000

\* What /api/subscription/start-checkout can answer: a checkoutUrl, a body
\* without one, or a failure (network error or a status handleResponse rejects).
CheckoutAnswers == {"url", "noUrl", "fail"}

\* A startCheckout call: where it stands, and why it rejected if it did.
Checkout(stage, cause) == [stage |-> stage, cause |-> cause]

\* startCheckout up to the await of api.post (lines 218-227)
startCheckout ==
    /\ checkouts' = Append(checkouts, Checkout("posting", "none"))
    /\ requests' = Append(requests, apiRequest("/api/subscription/start-checkout", token))
    /\ UNCHANGED <<token, planVars, fetching, refreshTimers>>

\* startCheckout once the checkout page is open (lines 238-243): logger.success,
\* then the timer; an exception goes through the catch of lines 245-248.
checkoutOpened(i) ==
    IF Logs("success")
    THEN /\ checkouts' = [checkouts EXCEPT ![i] = Checkout("resolved", "none")]
         /\ refreshTimers' = Append(refreshTimers, now + RefreshDelay)
    ELSE /\ checkouts' = [checkouts EXCEPT ![i] = Checkout("rejected", "logger")]
         /\ UNCHANGED refreshTimers

\* startCheckout after api.post settled (lines 229-236, 245-248)
startCheckoutResumes(i, answer) ==
    /\ i \in 1..Len(checkouts) /\ checkouts[i].stage = "posting"
    /\ IF answer = "fail"
       THEN /\ checkouts' = [checkouts EXCEPT ![i] = Checkout("rejected", "backend")]
            /\ UNCHANGED <<refreshTimers, invoked>>
       ELSE IF answer = "noUrl"
       THEN /\ checkouts' = [checkouts EXCEPT ![i] = Checkout("resolved", "none")]
            /\ UNCHANGED <<refreshTimers, invoked>>
       ELSE IF electronAPI
       THEN /\ checkouts' = [checkouts EXCEPT ![i] = Checkout("opening", "none")]
            /\ invoked' = Append(invoked, [channel |-> "shell:openExternal",
                                           outcome |-> Outcome("shell:openExternal")])
            /\ UNCHANGED refreshTimers
       ELSE checkoutOpened(i) /\ UNCHANGED invoked
    /\ UNCHANGED <<token, planVars, fetching, requests, electronAPI, handlers>>

\* startCheckout after the invoke of shell:openExternal settled (lines 232, 238-248)
startCheckoutOpens(i, opened) ==
    /\ i \in 1..Len(checkouts) /\ checkouts[i].stage = "opening"
    /\ IF opened
       THEN checkoutOpened(i)
       ELSE /\ checkouts' = [checkouts EXCEPT ![i] = Checkout("rejected", "open")]
            /\ UNCHANGED refreshTimers
    /\ UNCHANGED <<token, planVars, fetching, requests, shellVars>>

\* The timer of line 241 fires: fetchSubscription()
refreshTimerFires(i) ==
    /\ i \in 1..Len(refreshTimers) /\ refreshTimers[i] <= now
    /\ refreshTimers' = RemoveAt(refreshTimers, i)
    /\ fetchSubscription
    /\ UNCHANGED <<token, planVars, checkouts>>

\* SubscriptionProvider after its first render (lines 93-98), the user logged in or not
SubscriptionFields ==
    /\ fetching = 0
    /\ checkouts = <<>>
    /\ refreshTimers = <<>>
    /\ requests = <<>>

SubscriptionMounted ==
    /\ token \in Tokens
    /\ \E sub \in Subscriptions :
          /\ realtimeTranscription = sub.realtimeTranscription
          /\ minutesLimit = sub.minutesLimit
          /\ minutesUsedThisPeriod = sub.minutesUsedThisPeriod
    /\ SubscriptionFields

\* The other components' view of the provider: a plan that allows meetings.
SubscriptionUnused ==
    /\ token = "jwt"
    /\ realtimeTranscription = TRUE /\ minutesLimit = 20 /\ minutesUsedThisPeriod = 0
    /\ SubscriptionFields

\* ------------------------------------------------------------------ MeetingPage

\* The text of the segments the hook emits: trimmed and non-empty (part_000:265, 276).
SegmentTexts == {Trim(t) : t \in Transcripts} \ {<<>>}

\* What an onSegment callback closed over: translationEnabled and targetLanguage
\* of the render that created it (lines 75-92).
Closure(enabled, lang) == [enabled |-> enabled, lang |-> lang]

\* The onSegment of the latest render; the hook's effect depends on onSegment, so
\* the recognizer in recognitionRef.current always carries this one.
LatestHandler == Closure(translationEnabled, targetLanguage)

\* A render replaces the recognizer; the replaced one may still be winding down
\* and deliver a final result to the onSegment it was given.
Replaced(keep) == IF keep THEN staleHandlers \cup {LatestHandler} ELSE staleHandlers

\* onSegment (lines 75-82) up to the await: the segment joins the transcript and,
\* if the callback's translationEnabled is set, a translate call starts.
onSegment(segment, handler) ==
    /\ transcript' = Append(transcript, segment)
    /\ fullTranscriptText' = Append(fullTranscriptText, <<"\n", segment.speaker, ": ", segment.text>>)
    /\ translating' = IF handler.enabled
                      THEN translating \cup {[segment |-> segment, target |-> handler.lang]}
                      ELSE translating
    /\ delivered' = delivered + 1
    /\ UNCHANGED <<meetingVars, translatedTranscript, translationEnabled, targetLanguage,
                   staleHandlers>>

\* onSegment after the await (lines 82-87): the translated copy is appended.
translated(t, resp) ==
    /\ t \in translating
    /\ translating' = translating \ {t}
    /\ translatedTranscript' = Append(translatedTranscript,
           [t.segment EXCEPT !.text = translate(t.segment.text, t.target, resp).translatedText])
    /\ UNCHANGED <<meetingVars, fullTranscriptText, transcript, translationEnabled,
                   targetLanguage, staleHandlers, delivered>>

\* The translation button (lines 478-483)
toggleTranslation(keep) ==
    /\ translationEnabled' = ~translationEnabled
    /\ translatedTranscript' = IF ~translationEnabled THEN <<>> ELSE translatedTranscript
    /\ staleHandlers' = Replaced(keep)
    /\ UNCHANGED <<meetingVars, fullTranscriptText, transcript, targetLanguage, translating,
                   delivered>>

\* The language select, rendered while translation is enabled (lines 493-499)
selectLanguage(lang, keep) ==
    /\ translationEnabled
    /\ lang # targetLanguage
    /\ targetLanguage' = lang
    /\ translatedTranscript' = <<>>
    /\ staleHandlers' = Replaced(keep)
    /\ UNCHANGED <<meetingVars, fullTranscriptText, transcript, translationEnabled,
                   translating, delivered>>

\* A replaced recognizer fires `end`: its handlers are never called again.
handlerGone(handler) ==
    /\ handler \in staleHandlers
    /\ staleHandlers' = staleHandlers \ {handler}
    /\ UNCHANGED <<meetingVars, fullTranscriptText, transcript, translatedTranscript,
                   translationEnabled, targetLanguage, translating, delivered>>

\* The page's translation state and the transcript, which the meeting controls
\* other than the end of a meeting leave alone.
translationVars == <<translatedTranscript, translationEnabled, targetLanguage, translating,
                     staleHandlers>>

\* The render branch: the pre-meeting screen (lines 351-427) is returned while
\* !isActive && !startedAt, the meeting screen (lines 433-735) otherwise. The
\* Start button is on the former; the End button and both ConfirmDialogs
\* (lines 638-661) are on the latter.
PreMeetingRendered == ~isActive /\ startedAt = 0
MeetingRendered == ~PreMeetingRendered

\* startMeeting up to the await of getUserMedia (lines 119-122)
startMeeting == starting' = starting + 1

\* handleStartMeeting (lines 103-117), the onClick of the Start button
handleStartMeeting ==
    /\ IF ~canStartAllowed
       THEN UNCHANGED <<showBrowserWarning, starting>>
       ELSE IF ~isSupported
       THEN showBrowserWarning' = TRUE /\ UNCHANGED starting
       ELSE startMeeting /\ UNCHANGED showBrowserWarning
    /\ UNCHANGED <<canStartAllowed, isActive, startedAt, showEndMeetingConfirm,
                   meetingDuration, micDenied, ending, meetingId, meetings, endRequestedAt,
                   endCalls, fullTranscriptText, transcript, delivered, translationVars,
                   token, planVars, fetching, checkouts, refreshTimers, requests>>

\* The POST of lines 146-156; the headers hold Content-Type only.
StartRequest(meeting) ==
    Request("/api/meetings/start", NoHeader, meetingId, 0, meeting, now, 0)

\* startMeeting after getUserMedia settled (lines 123-156): the page's part. With
\* the microphone granted the meeting becomes active and the backend is told; the
\* caller adds the startListening() of line 138. A meeting is counted when the
\* page had none.
startMeetingResumes(granted) ==
    /\ starting > 0
    /\ starting' = starting - 1
    /\ IF granted
       THEN LET meeting == IF PreMeetingRendered THEN meetings + 1 ELSE meetings IN
            /\ isActive' = TRUE /\ startedAt' = now /\ micDenied' = FALSE
            /\ meetings' = meeting
            /\ requests' = Append(requests, StartRequest(meeting))
       ELSE micDenied' = TRUE /\ UNCHANGED <<isActive, startedAt, meetings, requests>>
    /\ UNCHANGED <<canStartAllowed, showBrowserWarning, showEndMeetingConfirm,
                   meetingDuration, ending, meetingId, endRequestedAt, endCalls,
                   fullTranscriptText, transcript, delivered, translationVars, token,
                   planVars, fetching, checkouts, refreshTimers>>

\* The buttons of the browser-compatibility dialog (lines 645-649)
answerBrowserWarning(confirm) ==
    /\ showBrowserWarning' = FALSE
    /\ IF confirm THEN startMeeting ELSE UNCHANGED starting
    /\ UNCHANGED <<canStartAllowed, isActive, startedAt, showEndMeetingConfirm,
                   meetingDuration, micDenied, ending, meetingId, meetings, endRequestedAt,
                   endCalls, fullTranscriptText, transcript, delivered, translationVars,
                   token, planVars, fetching, checkouts, refreshTimers, requests>>

\* The speakers of the simulated segments (line 331)
DemoSpeakers == {"You", "Sarah", "Mike"}

\* One of the simulated utterances (lines 313-324)
DemoText == <<"W", "e", "l", "c", "o", "m", "e">>

\* The period of the demo interval (line 342)
DemoInterval == 8000

\* The interval callback of demo mode (lines 324-342)
demoTick(speaker) ==
    /\ transcript' = Append(transcript, [id |-> "segment_" \o ToString(now),
                                          speaker |-> speaker, text |-> DemoText,
                                          timestamp |-> now])
    /\ fullTranscriptText' = Append(fullTranscriptText, <<" ", DemoText>>)
    /\ delivered' = delivered + 1
    /\ UNCHANGED <<meetingVars, translationVars, subscriptionVars>>

\* One minute, in the milliseconds of Date.now() (lines 168, 225: / 1000 / 60)
Minute == 60000

\* Math.floor((Date.now() - startedAt) / 1000 / 60) (lines 168, 225)
DurationMinutes(from, to) == (to - from) \div Minute

\* handleEndMeeting (lines 162-171), the onClick of the End button
handleEndMeeting ==
    /\ IF startedAt = 0
       THEN UNCHANGED <<meetingDuration, showEndMeetingConfirm, endRequestedAt>>
       ELSE /\ meetingDuration' = DurationMinutes(startedAt, now)
            /\ showEndMeetingConfirm' = TRUE
            /\ endRequestedAt' = now
    /\ UNCHANGED <<canStartAllowed, isActive, startedAt, showBrowserWarning, micDenied,
                   starting, ending, meetingId, meetings, endCalls, fullTranscriptText,
                   transcript, delivered, translationVars, token, planVars, fetching,
                   checkouts, refreshTimers, requests>>

\* The POST of lines 184-195, sent by a confirmEndMeeting whose render saw
\* meetingDuration; the headers hold Content-Type only.
EndRequest(duration, requested) ==
    Request("/api/meetings/end", NoHeader, meetingId, duration, meetings, startedAt,
            requested)

\* confirmEndMeeting up to its first await (lines 173-195), called from a render
\* that saw the duration `duration`: the page's part; the caller adds the
\* stopListening() of line 177.
confirmEndMeetingSends(duration, requested) ==
    /\ isActive' = FALSE
    /\ ending' = ending + 1
    /\ requests' = Append(requests, EndRequest(duration, requested))

\* confirmEndMeeting as the onConfirm of the end-meeting dialog (line 659)
confirmEndMeeting ==
    /\ confirmEndMeetingSends(meetingDuration, endRequestedAt)
    /\ UNCHANGED <<canStartAllowed, startedAt, showBrowserWarning, showEndMeetingConfirm,
                   meetingDuration, micDenied, starting, meetingId, meetings,
                   endRequestedAt, endCalls, fullTranscriptText, transcript, delivered,
                   translationVars, token, planVars, fetching, checkouts, refreshTimers>>

\* handleTimeLimit (lines 221-229), the onTimeLimit of MeetingTimer: the
\* confirmEndMeeting it calls belongs to the same render, so it sends the
\* meetingDuration that render saw, not the one set on line 226.
handleTimeLimit ==
    /\ IF startedAt # 0
       THEN /\ meetingDuration' = DurationMinutes(startedAt, now)
            /\ endRequestedAt' = now
            /\ confirmEndMeetingSends(meetingDuration, now)
       ELSE UNCHANGED <<meetingDuration, endRequestedAt, isActive, ending, requests>>
    /\ UNCHANGED <<canStartAllowed, startedAt, showBrowserWarning, showEndMeetingConfirm,
                   micDenied, starting, meetingId, meetings, endCalls, fullTranscriptText,
                   transcript, delivered, translationVars, token, planVars, fetching,
                   checkouts, refreshTimers>>

\* What the backend call of confirmEndMeeting can end in: fetch throws (line 205,
\* no refresh), or fetch settles and refresh() loads one of the answers.
EndAnswers == [status : {"failed"}, data : {NoData}] \cup SubscriptionAnswers

\* confirmEndMeeting after the backend call and refresh() settled (lines 197-218)
confirmEndMeetingResumes(answer) ==
    /\ ending > 0
    /\ ending' = ending - 1
    /\ IF answer.status = "failed"
       THEN UNCHANGED <<planVars, canStartAllowed, requests>>
       ELSE /\ requests' = Append(requests, apiRequest("/api/subscription/me", token))
            /\ Loaded(answer)
    /\ endCalls' = endCalls + 1
    /\ startedAt' = 0
    /\ transcript' = <<>>
    /\ fullTranscriptText' = <<>>
    /\ showEndMeetingConfirm' = FALSE
    /\ UNCHANGED <<isActive, showBrowserWarning, meetingDuration, micDenied, starting,
                   meetingId, meetings, endRequestedAt, delivered, translationVars, token,
                   fetching, checkouts, refreshTimers>>

\* The cancel button of the end-meeting dialog (line 660)
cancelEndMeeting ==
    /\ showEndMeetingConfirm' = FALSE
    /\ UNCHANGED <<canStartAllowed, isActive, startedAt, showBrowserWarning,
                   meetingDuration, micDenied, starting, ending, meetingId, meetings,
                   endRequestedAt, endCalls, fullTranscriptText, transcript, delivered,
                   translationVars, token, planVars, fetching, checkouts, refreshTimers,
                   requests>>

\* The meetingId of line 33, computed once, at the first render
MeetingId(mountedAt) == "meeting_" \o ToString(mountedAt)

\* The useState initial values of lines 36-56, with isActive and startedAt as given.
PageFields(active, started) ==
    /\ isActive = active
    /\ startedAt = started
    /\ showBrowserWarning = FALSE
    /\ showEndMeetingConfirm = FALSE
    /\ meetingDuration = 0
    /\ micDenied = FALSE
    /\ starting = 0
    /\ ending = 0
    /\ meetingId = MeetingId(now)
    /\ meetings = IF active THEN 1 ELSE 0
    /\ endRequestedAt = 0
    /\ endCalls = 0
    /\ fullTranscriptText = <<>>
    /\ transcript = <<>>
    /\ translatedTranscript = <<>>
    /\ translationEnabled = FALSE
    /\ targetLanguage = "es"
    /\ translating = {}
    /\ staleHandlers = {}
    /\ delivered = 0

\* MeetingPage after its first render (lines 31-56), before a meeting
PageMounted ==
    /\ canStartAllowed = canStartMeeting(realtimeTranscription, minutesLimit, minutesUsedThisPeriod)
    /\ PageFields(FALSE, 0)

\* The other components' view of a page that is not part of the specification.
PageUnused == canStartAllowed = TRUE /\ PageFields(FALSE, 0)

\* MeetingPage in a meeting that has just become active (lines 132-133).
PageInMeeting == canStartAllowed = TRUE /\ PageFields(TRUE, now)

\* ------------------------------------------------------------------ specifications

InitStream == StreamConstructed /\ DetectorConstructed /\ HookUnused /\ PageUnused /\ ShellUnused /\ SubscriptionUnused

AddTextStep == (\E text \in Texts : addText(text)) /\ UNCHANGED <<failed, notStream>>
ResumeStep ==
    /\ \E w \in awaiting, resp \in Responses : Resume(w, resp)
    /\ UNCHANGED <<failed, notStream>>
SetTargetLanguageStep ==
    /\ \E lang \in Langs : setTargetLanguage(lang)
    /\ UNCHANGED <<failed, notStream>>
ClearStep == clear /\ UNCHANGED <<failed, notStream>>

NextStream ==
    \/ AddTextStep
    \/ ResumeStep
    \/ SetTargetLanguageStep
    \/ ClearStep

SpecStream == InitStream /\ [][NextStream]_vars

\* Every backend request eventually completes, and the continuation then runs.
FairStream == SpecStream /\ WF_vars(ResumeStep)

\* ---- the TranslationStream with an observer that tells a request that failed
\* from one answered with an empty translation (both give the same result)

SettleStep ==
    /\ \E w \in awaiting, resp \in Responses :
          /\ Resume(w, resp)
          /\ failed' = (resp \in Failures)
    /\ UNCHANGED notStream

NextFlaky ==
    \/ AddTextStep
    \/ SettleStep
    \/ SetTargetLanguageStep
    \/ ClearStep

SpecFlaky == InitStream /\ [][NextFlaky]_vars

\* Every backend request eventually settles, and the continuation then runs.
FairFlaky == SpecFlaky /\ WF_vars(SettleStep)

\* ---- the TranslationStream whose callers also pass the empty string and longer
\* runs of whitespace

\* The empty string and a text of two spaces; Texts has the single space.
BlankTexts == { <<>>, <<" ", " ">> }

AddBlankStep == (\E text \in BlankTexts : addText(text)) /\ UNCHANGED <<failed, notStream>>

NextBlank ==
    \/ AddTextStep
    \/ AddBlankStep
    \/ ResumeStep
    \/ SetTargetLanguageStep
    \/ ClearStep

SpecBlank == InitStream /\ [][NextBlank]_vars

\* ---- the SpeakerDetector on its own, fed non-decreasing timestamps

StreamUnused == StreamConstructed /\ targetLang = "es"

InitDetector == DetectorConstructed /\ StreamUnused /\ HookUnused /\ PageUnused /\ ShellUnused /\ SubscriptionUnused

DetectSpeakerStep ==
    /\ Len(detections) < MaxUtterances
    /\ \E timestamp \in Times :
          /\ detections # <<>> => timestamp >= detections[Len(detections)].time
          /\ detectSpeaker(timestamp)
    /\ UNCHANGED notDetector

ResetStep ==
    /\ detections # <<>>
    /\ reset
    /\ UNCHANGED notDetector

NextDetector ==
    \/ DetectSpeakerStep
    \/ ResetStep

SpecDetector == InitDetector /\ [][NextDetector]_vars

\* ---- useSpeechRecognition, driven by its consumer, the recognizers and the clock;
\* every `result` event brings one result

InitHook == HookMounted /\ DetectorConstructed /\ StreamUnused /\ PageUnused /\ ShellUnused /\ SubscriptionUnused

StartListeningStep == StartListening /\ UNCHANGED notHook
StopListeningStep == stopListening /\ UNCHANGED notHook
OnResultStep ==
    /\ \E src \in Sources, event \in SingleResultEvents :
          /\ Emits(event) => Len(segments) < MaxSegments
          /\ onresult(src, event)
    /\ UNCHANGED notHook
OnErrorStep == (\E src \in Sources, code \in ErrorCodes : onerror(src, code)) /\ UNCHANGED notHook
OnEndStep == (\E src \in Sources : onend(src)) /\ UNCHANGED notHook
TimerStep == (\E i \in 1..Len(timers) : timerFires(i)) /\ UNCHANGED notHook
EffectStep == effect /\ UNCHANGED notHook
TickStep == tick /\ UNCHANGED notHook

NextHook ==
    \/ StartListeningStep
    \/ StopListeningStep
    \/ OnResultStep
    \/ OnErrorStep
    \/ OnEndStep
    \/ TimerStep
    \/ EffectStep
    \/ TickStep

SpecHook == InitHook /\ [][NextHook]_vars

\* ---- useSpeechRecognition feeding the transcript of its consumer: a healthy
\* recognizer (no error events), and every emitted segment handed to the page's
\* onSegment

EmitStep ==
    /\ \E src \in Sources, event \in Events :
          /\ onresult(src, event)
          /\ IF Emits(event)
             THEN /\ Len(segments) < MaxEmitted
                  /\ onSegment(segments'[Len(segments')], LatestHandler)
             ELSE UNCHANGED pageVars
    /\ UNCHANGED <<streamVars, failed, shellVars, subscriptionVars>>

NextSegments ==
    \/ StartListeningStep
    \/ StopListeningStep
    \/ EmitStep
    \/ OnEndStep
    \/ EffectStep
    \/ TickStep

SpecSegments == InitHook /\ [][NextSegments]_vars

\* ---- the same, with a consumer that may change enableDiarization between renders

RerenderStep == rerender /\ UNCHANGED notHook

NextOptions ==
    \/ NextSegments
    \/ RerenderStep

SpecOptions == InitHook /\ [][NextOptions]_vars

\* ---- MeetingPage with its useSpeechRecognition: the meeting controls and the
\* recognizers (healthy, no error events). The page passes continuous and
\* enableDiarization as true (lines 72-74); every render gives the hook a new
\* onSegment, so the hook's effect can re-run at any time. The
\* browser-compatibility dialog and the demo interval have their steps below,
\* but no behaviour from the mounted page enables them, so they are not
\* disjuncts of NextMeeting.

InitMeeting ==
    /\ HookMounted /\ continuous /\ enableDiarization
    /\ SubscriptionMounted /\ PageMounted
    /\ DetectorConstructed /\ StreamUnused /\ ShellUnused

\* What the page's own handlers leave alone.
notMeeting == <<streamVars, failed, hookVars, detectorVars, shellVars>>

PressStartStep ==
    /\ PreMeetingRendered
    /\ starting < MaxPending
    /\ meetings < MaxMeetings
    /\ handleStartMeeting
    /\ UNCHANGED notMeeting

MicrophoneStep ==
    /\ \E granted \in BOOLEAN :
          /\ startMeetingResumes(granted)
          /\ IF granted /\ isSupported
             THEN StartListening
             ELSE UNCHANGED <<hookVars, detectorVars>>
    /\ UNCHANGED <<streamVars, failed, shellVars>>

BrowserWarningStep ==
    /\ showBrowserWarning /\ MeetingRendered
    /\ starting < MaxPending
    /\ \E confirm \in BOOLEAN : answerBrowserWarning(confirm)
    /\ UNCHANGED notMeeting

\* The interval exists while isActive && !isSupported (lines 309-310, 344); its
\* callback runs when a period has passed.
DemoTickStep ==
    /\ isActive /\ ~isSupported
    /\ delivered < MaxDelivered
    /\ now' = now + DemoInterval
    /\ \E speaker \in DemoSpeakers : demoTick(speaker)
    /\ UNCHANGED <<isListening, isSupported, continuous, enableDiarization, current, retired,
                   timers, segmentCounter, segments, reported, logged>>
    /\ UNCHANGED <<streamVars, failed, detectorVars, shellVars>>

\* A recognizer of the page's hook delivers a `result` event.
MeetingEmitStep ==
    /\ \E src \in Sources, event \in SingleResultEvents :
          /\ onresult(src, event)
          /\ IF Emits(event)
             THEN /\ Len(segments) < MaxSegments
                  /\ onSegment(segments'[Len(segments')], LatestHandler)
             ELSE UNCHANGED pageVars
    /\ UNCHANGED <<streamVars, failed, shellVars, subscriptionVars>>

PressEndStep ==
    /\ MeetingRendered
    /\ handleEndMeeting
    /\ UNCHANGED notMeeting

\* The stopListening() of line 177; the hook's stopListening returns at once
\* when there is no recognizer (part_000:364).
StopTranscription ==
    IF current.state = "none"
    THEN UNCHANGED <<hookVars, detectorVars>>
    ELSE stopListening

ConfirmEndStep ==
    /\ showEndMeetingConfirm /\ MeetingRendered
    /\ ending < MaxEnding
    /\ confirmEndMeeting
    /\ StopTranscription
    /\ UNCHANGED <<streamVars, failed, shellVars>>

\* MeetingTimer, rendered while startedAt is set (lines 564-571), reports that
\* the time limit is reached. The timer is taken at its most careful: it reports
\* only while the meeting is active, hence once per meeting.
TimeLimitStep ==
    /\ MeetingRendered /\ startedAt # 0 /\ isActive
    /\ ending < MaxEnding
    /\ handleTimeLimit
    /\ StopTranscription
    /\ UNCHANGED <<streamVars, failed, shellVars>>

EndResumesStep ==
    /\ \E answer \in EndAnswers : confirmEndMeetingResumes(answer)
    /\ UNCHANGED notMeeting

CancelEndStep ==
    /\ showEndMeetingConfirm /\ MeetingRendered
    /\ cancelEndMeeting
    /\ UNCHANGED notMeeting

\* A minute passes.
MinuteStep ==
    /\ now < MaxMinutes * Minute
    /\ now' = now + Minute
    /\ UNCHANGED <<isListening, isSupported, continuous, enableDiarization, current, retired,
                   timers, segmentCounter, segments, reported, logged>>
    /\ UNCHANGED <<streamVars, failed, detectorVars, pageVars, shellVars, subscriptionVars>>

NextMeeting ==
    \/ PressStartStep
    \/ MicrophoneStep
    \/ PressEndStep
    \/ ConfirmEndStep
    \/ EndResumesStep
    \/ CancelEndStep
    \/ MeetingEmitStep
    \/ OnEndStep
    \/ EffectStep

SpecMeeting == InitMeeting /\ [][NextMeeting]_vars

\* ---- MeetingPage and the backend: the meeting controls, the meeting timer and
\* the clock, without the events of the recognizers

NextBackend ==
    \/ PressStartStep
    \/ MicrophoneStep
    \/ PressEndStep
    \/ ConfirmEndStep
    \/ TimeLimitStep
    \/ EndResumesStep
    \/ CancelEndStep
    \/ MinuteStep

SpecBackend == InitMeeting /\ [][NextBackend]_vars

\* ---- the subscription gate of MeetingPage: starting and ending meetings while
\* the SubscriptionProvider reloads the subscription (on mount, every five
\* minutes, lines 153-164)

\* The page's state other than canStart.
pageRest == <<isActive, startedAt, showBrowserWarning, showEndMeetingConfirm, meetingDuration,
              micDenied, starting, ending, meetingId, meetings, endRequestedAt, endCalls,
              fullTranscriptText, transcript, translatedTranscript, translationEnabled,
              targetLanguage, translating, staleHandlers, delivered>>

FetchSubscriptionStep ==
    /\ fetching < MaxFetches
    /\ Len(requests) < MaxRequests
    /\ fetchSubscription
    /\ UNCHANGED <<token, planVars, checkouts, refreshTimers>>
    /\ UNCHANGED <<streamVars, failed, detectorVars, hookVars, pageVars, shellVars>>

SubscriptionAnswerStep ==
    /\ \E answer \in SubscriptionAnswers : fetchSubscriptionResumes(answer)
    /\ UNCHANGED <<streamVars, failed, detectorVars, hookVars, pageRest, shellVars>>

NextGate ==
    \/ PressStartStep
    \/ MicrophoneStep
    \/ FetchSubscriptionStep
    \/ SubscriptionAnswerStep

SpecGate == InitMeeting /\ [][NextGate]_vars

\* ---- MeetingPage: segments, translations and the translation controls

InitPage == HookUnused /\ PageInMeeting /\ DetectorConstructed /\ StreamUnused /\ ShellUnused /\ SubscriptionUnused

OnSegmentStep ==
    /\ delivered < MaxDelivered
    /\ \E text \in SegmentTexts, handler \in {LatestHandler} \cup staleHandlers :
          onSegment([id |-> delivered + 1, speaker |-> "You", text |-> text], handler)
    /\ UNCHANGED notPage
TranslatedStep == (\E t \in translating, resp \in Responses : translated(t, resp)) /\ UNCHANGED notPage
ToggleTranslationStep == (\E keep \in BOOLEAN : toggleTranslation(keep)) /\ UNCHANGED notPage
SelectLanguageStep == (\E lang \in Langs, keep \in BOOLEAN : selectLanguage(lang, keep)) /\ UNCHANGED notPage
HandlerGoneStep == (\E handler \in staleHandlers : handlerGone(handler)) /\ UNCHANGED notPage

NextPage ==
    \/ OnSegmentStep
    \/ TranslatedStep
    \/ ToggleTranslationStep
    \/ SelectLanguageStep
    \/ HandlerGoneStep

SpecPage == InitPage /\ [][NextPage]_vars

\* ---- SubscriptionProvider: the upgrade flow

\* The provider mounted, logged in or not, in the desktop shell or in a browser.
InitCheckout ==
    /\ SubscriptionMounted
    /\ electronAPI \in BOOLEAN /\ handlers = RegisteredChannels /\ invoked = <<>>
    /\ StreamUnused /\ DetectorConstructed /\ HookUnused /\ PageUnused

checkoutRest == <<streamVars, failed, detectorVars, hookVars, pageVars>>

\* The upgrade button calls startCheckout.
StartCheckoutStep ==
    /\ Len(checkouts) < MaxCheckouts /\ Len(requests) < MaxRequests
    /\ startCheckout
    /\ UNCHANGED <<checkoutRest, shellVars>>
CheckoutAnswerStep ==
    /\ \E i \in 1..Len(checkouts), answer \in CheckoutAnswers : startCheckoutResumes(i, answer)
    /\ UNCHANGED checkoutRest
\* shell.openExternal resolves, or rejects (no application for the URL).
CheckoutOpensStep ==
    /\ \E i \in 1..Len(checkouts), opened \in BOOLEAN : startCheckoutOpens(i, opened)
    /\ UNCHANGED checkoutRest
RefreshTimerStep ==
    /\ \E i \in 1..Len(refreshTimers) : refreshTimerFires(i)
    /\ UNCHANGED <<checkoutRest, shellVars>>

NextCheckout ==
    \/ StartCheckoutStep
    \/ CheckoutAnswerStep
    \/ CheckoutOpensStep

SpecCheckout == InitCheckout /\ [][NextCheckout]_vars

\* ---- the renderer's calls into the host shell

InitShell ==
    /\ ShellStarted /\ SubscriptionUnused
    /\ StreamUnused /\ DetectorConstructed /\ HookUnused /\ PageUnused

HandleMinimizeStep == Len(invoked) < MaxInvokes /\ handleMinimize /\ UNCHANGED notShell
HandleMaximizeStep == Len(invoked) < MaxInvokes /\ handleMaximize /\ UNCHANGED notShell
HandleCloseStep == Len(invoked) < MaxInvokes /\ handleClose /\ UNCHANGED notShell
\* the quick actions of MeetingPage (MeetingPage.tsx:278)
GenerateStep == Len(invoked) < MaxInvokes /\ invoke("llm:generate") /\ UNCHANGED notShell
\* startCheckout opening the checkout page (SubscriptionContext.tsx:231-232)
OpenExternalStep ==
    Len(invoked) < MaxInvokes /\ invoke("shell:openExternal") /\ UNCHANGED notShell

NextShell ==
    \/ HandleMinimizeStep
    \/ HandleMaximizeStep
    \/ HandleCloseStep
    \/ GenerateStep
    \/ OpenExternalStep

SpecShell == InitShell /\ [][NextShell]_vars

\* ------------------------------------------------------------------ claims: TranslationStream

NonBlank(text) == Trim(text) # <<>>

\* The requests of the stream that the backend has not answered yet.
InFlight == {w.fetch : w \in awaiting}

Submitted(i) == \E k \in 1..Len(fetches) : fetches[k].call = i

\* C1: at most one translate request issued by the stream is in flight at any
\* time, for any interleaving of addText, setTargetLanguage, clear and completions.
C1_AtMostOneInFlight == Cardinality(InFlight) <= 1 /\ Cardinality(awaiting) <= 1

\* C1 witness: a request is in flight while two further texts wait in the queue.
C1_Witness == Cardinality(InFlight) = 1 /\ Len(pendingTexts) >= 2

\* C2: every addText call with non-blank text returns a promise that resolves to
\* the translation result of that same text, never to null, also when the call
\* is made while an earlier item is being translated.
C2_AddTextResolvesToOwnTranslation ==
    \A i \in 1..Len(calls) :
        NonBlank(calls[i].text) =>
            /\ calls[i].ret # Null
            /\ calls[i].ret # Waiting => calls[i].ret.translatedText.of = calls[i].text

\* C3 (safety part): the backend receives each enqueued text at most once, in the
\* order of the addText calls, and only texts that were enqueued.
C3_SubmittedOnceInOrder ==
    /\ \A j, k \in 1..Len(fetches) : j < k => fetches[j].call < fetches[k].call
    /\ \A k \in 1..Len(fetches) :
          /\ fetches[k].call \in 1..Len(calls)
          /\ fetches[k].text = calls[fetches[k].call].text
          /\ fetches[k].call \notin cleared

\* C3: self-driving drain. Provided every backend request completes, every
\* non-blank text passed to addText and not removed by clear() is eventually
\* submitted to the backend, exactly once and in enqueue order, with no further
\* external call.
C3_SelfDrivingDrain ==
    /\ []C3_SubmittedOnceInOrder
    /\ \A i \in 1..MaxCalls :
          (i <= Len(calls) /\ NonBlank(calls[i].text)) ~> (Submitted(i) \/ i \in cleared)

\* C3 witness: a text that had to wait in the queue was submitted by the internal
\* drain of a finished processQueue, not by an addText call.
C3_Witness == \E w \in awaiting : w.caller = 0 /\ calls[fetches[w.fetch].call].ret = Null

\* C10 (as claimed): every text is translated into the target language that was in
\* effect when it was enqueued.
C10_LangAtEnqueue ==
    \A k \in 1..Len(fetches) : fetches[k].target = calls[fetches[k].call].lang

\* C10 (amended): a text is translated into the target language in effect at the
\* moment it is dequeued and submitted; requests already submitted keep theirs.
C10_LangAtDequeue ==
    [][ \/ fetches' = fetches
        \/ /\ Len(fetches') = Len(fetches) + 1
           /\ SubSeq(fetches', 1, Len(fetches)) = fetches
           /\ fetches'[Len(fetches')].target = targetLang ]_vars

\* C10 witness: a text was submitted in a language other than the one in effect
\* when it was enqueued, because setTargetLanguage ran while it was pending.
C10_Witness ==
    \E k \in 1..Len(fetches) : fetches[k].target # calls[fetches[k].call].lang

\* C21: addText with an empty or whitespace-only string resolves to null, issues
\* no request to the translation backend, and leaves the pending queue and the
\* processing flag unchanged.
C21_BlankResolvesToNull ==
    [][ \A text \in Texts \cup BlankTexts :
           (Trim(text) = <<>> /\ addText(text)) =>
               /\ calls'[Len(calls')].ret = Null
               /\ fetches' = fetches
               /\ awaiting' = awaiting
               /\ pendingTexts' = pendingTexts
               /\ isProcessing' = isProcessing ]_vars

\* C21 witness: the empty string was passed to addText while a text waited in the
\* queue behind a request in flight, and the queue and the flag are as they were.
C21_Witness ==
    /\ Len(calls) = 3
    /\ calls[3].text = <<>> /\ calls[3].ret = Null
    /\ Len(pendingTexts) = 1
    /\ isProcessing /\ Cardinality(awaiting) = 1

\* C25: between event-loop tasks, isProcessing = false implies that the pending
\* queue is empty; consequently every non-null result returned by addText is the
\* translation of the text passed to that very call.
C25_IdleMeansDrained ==
    /\ ~isProcessing => pendingTexts = <<>>
    /\ \A i \in 1..Len(calls) :
          calls[i].ret \notin {Null, Waiting} =>
              /\ calls[i].ret.kind = "result"
              /\ calls[i].ret.translatedText.of = calls[i].text

\* C25 witness: the stream is idle with an empty queue after a text that had to
\* wait behind a request was drained, and the first caller got its own result.
C25_Witness ==
    /\ ~isProcessing /\ pendingTexts = <<>>
    /\ \E i, j \in 1..Len(calls) :
          /\ i < j
          /\ calls[i].ret \notin {Null, Waiting}
          /\ NonBlank(calls[j].text) /\ calls[j].ret = Null /\ Submitted(j)

\* The addText call whose processQueue is suspended on a backend request.
Started_By(i) == \E w \in awaiting : w.caller = i

\* C11: clear() removes every pending text, none of the removed texts is ever
\* submitted to the backend, and the request in flight is left untouched: it
\* still completes, and its result goes to the addText call that started it.
C11_ClearDropsPendingOnly ==
    /\ [](\A k \in 1..Len(fetches) : fetches[k].call \notin cleared)
    /\ [][ clear =>
              /\ pendingTexts' = <<>>
              /\ \A i \in 1..Len(pendingTexts) : pendingTexts[i].call \in cleared'
              /\ awaiting' = awaiting /\ awaiting # {}
              /\ isProcessing' = isProcessing
              /\ fetches' = fetches /\ calls' = calls ]_vars
    /\ \A i \in 1..MaxCalls :
          Started_By(i) ~>
              /\ i <= Len(calls)
              /\ calls[i].ret.kind = "result"
              /\ calls[i].ret.translatedText.of = calls[i].text

\* C11 witness: the second text was removed by clear() while the first was being
\* translated, and the first call then received its translation.
C11_Witness ==
    /\ Len(calls) >= 2 /\ cleared = {2}
    /\ calls[1].ret.kind = "result" /\ calls[2].ret = Null
    /\ Len(fetches) = 1

Gap(k) == detections[k].time - detections[k - 1].time

Flipped(k) == detections[k].after # detections[k].before

\* C8 (as claimed): the detector flips currentSpeaker on an utterance exactly when
\* the utterance is not the first of the session and its gap from the previous
\* utterance is strictly greater than 2000 ms; the label is "Speaker {currentSpeaker}".
C8_FlipsOnGapAfterFirst ==
    \A k \in 1..Len(detections) :
        /\ Flipped(k) <=> (k > 1 /\ Gap(k) > 2000)
        /\ detections[k].label = SpeakerLabel(detections[k].after)

\* C8 (amended): the detector flips currentSpeaker between 1 and 2 on an utterance
\* exactly when the previous utterance of the session has a timestamp greater
\* than 0 and the gap from it is strictly greater than 2000 ms; the label is
\* "Speaker {currentSpeaker}" and currentSpeaker is the last label's speaker.
C8_FlipsOnGapAfterNonzero ==
    /\ \A k \in 1..Len(detections) :
          /\ Flipped(k) <=> (k > 1 /\ detections[k - 1].time > 0 /\ Gap(k) > 2000)
          /\ detections[k].before = (IF k = 1 THEN 1 ELSE detections[k - 1].after)
          /\ detections[k].after \in {1, 2}
          /\ detections[k].label = (IF detections[k].after = 1 THEN "Speaker 1" ELSE "Speaker 2")
    /\ detections # <<>> => currentSpeaker = detections[Len(detections)].after

\* C8 witness: the spec's example, timestamps 0, 500, 3000 labelled
\* Speaker 1, Speaker 1, Speaker 2.
C8_Witness ==
    /\ Len(detections) = 3
    /\ detections[1].time = 0 /\ detections[2].time = 500 /\ detections[3].time = 3000
    /\ detections[1].label = "Speaker 1"
    /\ detections[2].label = "Speaker 1"
    /\ detections[3].label = "Speaker 2"

\* The non-decreasing timestamp sequences of at most MaxReplay utterances.
ReplaySequences ==
    {ts \in UNION {[1..n -> Times] : n \in 0..MaxReplay} :
        \A k \in 1..(Len(ts) - 1) : ts[k] <= ts[k + 1]}

\* C15: from every state the detector reaches, reset() followed by a timestamp
\* sequence gives the labels and the final state a freshly constructed detector
\* gives for that sequence, and reset() twice is reset() once.
C15_ResetGivesFreshDetector ==
    /\ AfterReset(AfterReset(Detector)) = AfterReset(Detector)
    /\ \A ts \in ReplaySequences :
          Replay(AfterReset(Detector), ts) = Replay(FreshDetector, ts)

\* C15 witness: the detector has switched to speaker 2 and holds history, and
\* after reset() the timestamps 0, 500, 3000 are labelled as on a fresh detector.
C15_Witness ==
    /\ currentSpeaker = 2 /\ lastSpeechTime > 0 /\ Len(speakerHistory) >= 2
    /\ Replay(AfterReset(Detector), <<0, 500, 3000>>).labels
           = <<"Speaker 1", "Speaker 1", "Speaker 2">>

\* ------------------------------------------------------------------ claims: useSpeechRecognition

\* C4: when the recognizer ends naturally (it was capturing, nobody stopped it)
\* while the hook's isListening is true, the installed onend handler calls start()
\* again if continuous = true, so capture is active again, and does not if
\* continuous = false.
C4_RestartOnNaturalEnd ==
    [][ (onend(0) /\ current.state = "active" /\ isListening) =>
            IF continuous
            THEN RestartsOnEnd(current) /\ current'.state = "active"
            ELSE ~RestartsOnEnd(current) /\ current'.state = "idle" ]_vars

\* C6: a retry is scheduled after a recognizer error exactly for the codes
\* network and audio-capture; it fires once, one second after the error, and
\* calls startListening exactly when the hook's isListening is true when it fires.
C6_RetryPolicy ==
    [][ /\ \A src \in Sources, code \in ErrorCodes :
              onerror(src, code) =>
                  IF code \in {"network", "audio-capture"}
                  THEN /\ Len(timers') = Len(timers) + 1
                       /\ timers'[Len(timers')].due = now + 1000
                  ELSE timers' = timers
        /\ \A i \in 1..Len(timers) :
              timerFires(i) =>
                  /\ now = timers[i].due
                  /\ Len(timers') = Len(timers) - 1
                  /\ RetryCallsStart(timers[i]) <=> isListening ]_vars

\* C7: the onerror handler calls onError with the error code for every recognizer
\* error whose code is neither no-speech nor aborted, and does not call it for
\* those two codes.
C7_ReportingPolicy ==
    [][ \A src \in Sources, code \in ErrorCodes :
            onerror(src, code) =>
                reported' = IF code \in {"no-speech", "aborted"} THEN <<>> ELSE <<code>> ]_vars

\* C7 witness: a recognizer error other than no-speech and aborted was just
\* reported to onError, and the recognizer it hit is winding down.
C7_Witness == reported = <<"not-allowed">> /\ current.state = "stopping"

\* The SpeakerDetector's lastSpeechTime, currentSpeaker or history changes.
DetectorChanges ==
    \/ lastSpeechTime' # lastSpeechTime
    \/ currentSpeaker' # currentSpeaker
    \/ speakerHistory' # speakerHistory

\* C9: the SpeakerDetector changes only when a final result is labelled or when
\* the consumer starts a listening session while capture is not active: neither
\* the onend restart, nor the one-second error retry, nor a startListening call
\* made while capture is active changes it.
C9_ResetOnlyOnSessionStart ==
    [][ DetectorChanges =>
            \/ \E src \in Sources, event \in Events : Emits(event) /\ onresult(src, event)
            \/ StartListening /\ current.state # "active" ]_vars

\* C13: onSegment is invoked exactly once for each final result whose trimmed
\* text is non-empty and never for an interim or blank result; the segment's text
\* is the trimmed transcript and its speaker is "You" when diarization is
\* disabled and the detector's label otherwise.
C13_OneSegmentPerFinal ==
    [][ \A src \in Sources, event \in Events :
            onresult(src, event) =>
                LET finals == {k \in 1..Len(event) :
                                  event[k].isFinal /\ Trim(event[k].transcript) # <<>>}
                    emitted == SubSeq(segments', Len(segments) + 1, Len(segments'))
                IN /\ Len(segments') = Len(segments) + Cardinality(finals)
                   /\ SubSeq(segments', 1, Len(segments)) = segments
                   /\ \A k \in 1..Len(emitted) :
                         /\ \E j \in finals : emitted[k].text = Trim(event[j].transcript)
                         /\ emitted[k].speaker =
                               IF enableDiarization THEN SpeakerLabel(currentSpeaker')
                               ELSE "You" ]_vars

\* C14: the segments emitted by one useSpeechRecognition instance have pairwise
\* distinct ids, also for final results of the same millisecond, across
\* stop/start cycles and effect re-runs, and the consumer's transcript list holds
\* them in the order the final results were received.
C14_DistinctIdsInOrder ==
    /\ \A j, k \in 1..Len(segments) : j # k => segments[j].id # segments[k].id
    /\ transcript = segments

\* C14 witness: two segments were emitted in the same millisecond, the second
\* one after an effect re-run replaced the recognizer, and both are in the
\* consumer's transcript.
C14_Witness ==
    /\ Len(segments) = 2 /\ Len(transcript) = 2
    /\ segments[1].timestamp = segments[2].timestamp
    /\ retired # <<>>

\* C16: in every reachable state isListening is true while speech capture is
\* active and false when it is not (after stopListening, after a natural end that
\* is not restarted, after an error that ended capture, after the effect cleanup
\* stopped the recognizer). A recognizer that is winding down counts as either.
C16_ListeningIffCapturing ==
    /\ current.state = "active" => isListening
    /\ current.state \in {"idle", "none"} => ~isListening

\* C17: startListening called when speech recognition is unsupported, or when
\* the recognizer is not initialized, calls onError with the matching message,
\* starts no capture and leaves isListening and the SpeakerDetector unchanged.
C17_StartUnsupportedReports ==
    [][ (StartListening /\ (~isSupported \/ current.state = "none")) =>
            /\ reported' = <<IF ~isSupported THEN NotSupportedMessage
                             ELSE NotInitializedMessage>>
            /\ isListening' = isListening
            /\ current' = current /\ current.state # "active"
            /\ Detector' = Detector ]_vars

\* C17 witness: on a platform without speech recognition startListening has
\* reported the missing support; nothing is captured and isListening is false.
C17_Witness ==
    /\ ~isSupported /\ current = NoRecognizer
    /\ reported = <<NotSupportedMessage>>
    /\ ~isListening /\ Detector = FreshDetector

\* C20: recognizer errors with code no-speech or aborted are fully suppressed:
\* handling them writes nothing to the error log and surfaces nothing to the user.
C20_NoiseFullySuppressed ==
    [][ \A src \in Sources, code \in {"no-speech", "aborted"} :
            onerror(src, code) => (logged' = 0 /\ reported' = <<>>) ]_vars

\* ------------------------------------------------------------------ claims: MeetingPage

\* C18: once a meeting has ended (confirmEndMeeting ran to completion, startedAt
\* is null) the transcript list and the full transcript text are empty, and stay
\* empty until the next meeting is started, whatever segments or late recognition
\* results arrive around the end.
C18_TranscriptEmptyBetweenMeetings ==
    (~isActive /\ startedAt = 0 /\ ending = 0) =>
        (transcript = <<>> /\ fullTranscriptText = <<>>)

\* C19: when speech recognition is unsupported and the plan allows starting,
\* pressing Start raises the browser-compatibility confirmation, which the user
\* can answer: whenever showBrowserWarning is set, the dialog is on the screen.
C19_BrowserWarningCanBeAnswered ==
    (~isSupported /\ canStartAllowed /\ showBrowserWarning) => MeetingRendered

\* C5: in every reachable state, for every index i below the length of
\* translatedTranscript, translatedTranscript[i] is the translated copy of
\* transcript[i]: same segment id, text rendered from that segment's text.
C5_TranslatedAlignedByIndex ==
    \A i \in 1..Len(translatedTranscript) :
        /\ i <= Len(transcript)
        /\ translatedTranscript[i].id = transcript[i].id
        /\ translatedTranscript[i].text.of = transcript[i].text

\* C28: in every reachable state with translation enabled, every entry of
\* translatedTranscript was translated into the currently selected target
\* language (or is the original text, where the service fell back to it): a
\* translation requested before a language change, or before translation was
\* switched off and on again, is never added to the list afterwards.
C28_TranslatedIntoSelectedLanguage ==
    translationEnabled =>
        \A i \in 1..Len(translatedTranscript) :
            translatedTranscript[i].text.into \in {targetLanguage, "unchanged"}

\* ------------------------------------------------------------------ claims: backend API

EndRequests == {i \in 1..Len(requests) : requests[i].endpoint = "/api/meetings/end"}
StartRequests == {i \in 1..Len(requests) : requests[i].endpoint = "/api/meetings/start"}

\* C22: every request the client sends to the backend API (subscription,
\* checkout, meeting start, meeting end) carries an `Authorization: Bearer
\* <token>` header.
C22_EveryRequestAuthorized ==
    \A i \in 1..Len(requests) : requests[i].authorization # NoHeader

\* The minutes the plan has left, written out.
MinutesLeft ==
    IF minutesLimit > minutesUsedThisPeriod THEN minutesLimit - minutesUsedThisPeriod ELSE 0

\* C24: a meeting becomes active only if canStartMeeting allowed it when Start
\* was pressed, and canStartMeeting allows exactly when the plan has
\* realtimeTranscription enabled and max(0, minutesLimit - minutesUsedThisPeriod)
\* is greater than 0. A press calls startMeeting only under that condition, the
\* page's canStart is that condition, and a meeting becomes active only by
\* consuming a startMeeting call.
C24_StartGatedByPlan ==
    /\ [](canStartAllowed <=> (realtimeTranscription /\ MinutesLeft > 0))
    /\ [][starting' > starting => (realtimeTranscription /\ MinutesLeft > 0)]_vars
    /\ [][(isActive' /\ ~isActive) => (starting > 0 /\ starting' = starting - 1)]_vars

\* C24 witness: a meeting is active although the plan no longer allows one: the
\* subscription changed between the press of Start and the activation.
C24_Witness == isActive /\ meetings = 1 /\ ~canStartAllowed /\ realtimeTranscription

\* C26: for each started meeting, MeetingPage sends at most one POST
\* /api/meetings/end and calls onEndMeeting at most once, for any interleaving of
\* the End button, the confirmation dialog and the time-limit callback, including
\* while an earlier end is still awaiting the backend.
C26_EndedAtMostOnce ==
    /\ \A m \in 1..meetings :
          Cardinality({i \in EndRequests : requests[i].meeting = m}) <= 1
    /\ endCalls <= meetings

\* C27: the durationMinutes sent in POST /api/meetings/end equals the whole
\* minutes elapsed between startedAt and the moment the end of that meeting was
\* requested, on both the user-confirmed path and the time-limit path.
C27_DurationIsElapsedMinutes ==
    \A i \in EndRequests :
        requests[i].durationMinutes * Minute <= requests[i].requestedAt - requests[i].meetingStartedAt
        /\ requests[i].requestedAt - requests[i].meetingStartedAt
              < (requests[i].durationMinutes + 1) * Minute

\* C29: two meetings started one after the other on the same MeetingPage
\* instance (start, end, start again) are reported to the backend under
\* different meetingId values.
C29_DistinctMeetingIds ==
    \A i, j \in StartRequests :
        requests[i].meeting # requests[j].meeting =>
            requests[i].meetingId # requests[j].meetingId

\* C30: startCheckout, when the backend answers with a checkoutUrl and the URL is
\* opened successfully, resolves without error and schedules exactly one
\* subscription refresh three seconds later; it rejects only when the backend
\* request or opening the URL fails.
C30_CheckoutResolvesAndRefreshes ==
    /\ [](\A i \in 1..Len(checkouts) :
            checkouts[i].stage = "rejected" => checkouts[i].cause \in {"backend", "open"})
    /\ [][\A i \in 1..Len(checkouts) :
            (checkouts[i].stage = "opening" /\ checkouts'[i].stage # "opening"
                /\ checkouts'[i].cause # "open")
            => /\ checkouts'[i].stage = "resolved"
               /\ refreshTimers' = Append(refreshTimers, now + RefreshDelay)]_vars

\* ------------------------------------------------------------------ claims: host shell

\* C23: every IPC channel the renderer invokes on the host shell (llm:generate,
\* shell:openExternal, window:minimize, window:maximize, window:close) has a
\* handler registered in the main process, so no invoke from the UI is left
\* without a handler.
C23_EveryInvokeHandled ==
    \A i \in 1..Len(invoked) : invoked[i].outcome = "handled"

====
